---- MODULE Spec2Model ----
(***************************************************************************)
(* Model of mm.c, an explicit-free-list allocator (doubly linked LIFO      *)
(* list, first fit, boundary tags) on top of the memlib heap provider.     *)
(*                                                                         *)
(* The build modelled is the 32-bit one the macros are written for:        *)
(* size_t and pointers are one 4-byte word (WSIZE), so GET/PUT move one    *)
(* word.  The heap image is a function from word addresses (multiples of   *)
(* 4) to word values; a word the provider hands out and nobody has stored  *)
(* to reads 0 (memlib backs the heap with one fresh anonymous mapping).    *)
(***************************************************************************)
EXTENDS Integers, FiniteSets, Sequences, TLC

\* ---------------------------------------------------------------- bounds
MaxHeapDW == 16                 \* capacity of the provider, in double words
MaxReq    == 48                 \* largest request size the client makes
MaxOps    == 6                  \* public calls and client stores after init

\* ------------------------------------------------------ program constants
ALIGNMENT == 8
WSIZE     == 4
DSIZE     == 8
CHUNKSIZE == 16
OVERHEAD  == 24
NULL      == 0
SBRK_FAIL == -1                 \* (void *)-1, what mem_sbrk returns on refusal
LO        == 8                  \* mem_heap_lo(): 8-byte aligned, above NULL

MaxHeap == DSIZE * MaxHeapDW
Addrs   == {WSIZE * i : i \in 0 .. ((LO + MaxHeap) \div WSIZE) + 1}
Sizes   == {0, 16, 17, MaxReq}
OutsideWords == {0, OVERHEAD + 1, 4104}

\* ----------------------------------------------------------------- size_t
\* A size_t is a 32-bit word.  The model holds the word w as the integer of
\* -2^31 .. 2^31 - 1 that is congruent to w modulo 2^32, so that 2^32 - 1 is
\* held as -1 and 2^32 - 8 as -8 (the value the word has when read as an
\* int, which is how mem_sbrk reads it).  A sum or a difference of such
\* integers that stays in the range is the sum or difference modulo 2^32;
\* the comparisons of size_t are the unsigned ones.
TwoTo30 == 1073741824           \* 2^32 / WSIZE

ULT(x, y) == IF (x < 0) = (y < 0) THEN x < y ELSE y < 0

ULE(x, y) == ~ULT(y, x)

\* size / WSIZE and words * WSIZE in size_t
WordsOf(size) == IF size >= 0 THEN size \div WSIZE ELSE (size \div WSIZE) + TwoTo30

BytesOf(words) ==
    IF words >= TwoTo30 \div 2 THEN (words - TwoTo30) * WSIZE ELSE words * WSIZE

\* ------------------------------------------------------------ the macros
MAX(x, y) == IF ULT(y, x) THEN x ELSE y

\* Mutant: rounds down to a multiple of ALIGNMENT instead of up.
ALIGN_down(size) == (size \div 8) * 8

ALIGN(size) == ((size + (ALIGNMENT - 1)) \div 8) * 8

PACK(size, alloc) == IF size % 2 = 1 THEN size ELSE size + alloc

GET(h, p) == IF p \in DOMAIN h THEN h[p] ELSE 0

PUT(h, p, value) == IF p \in DOMAIN h THEN [h EXCEPT ![p] = value] ELSE h

GET_SIZE(h, p) == (GET(h, p) \div 8) * 8

GET_ALLOC(h, p) == GET(h, p) % 2

HDRP(bp) == bp - WSIZE

FTRP(h, bp) == bp + GET_SIZE(h, HDRP(bp)) - DSIZE

NEXT_BLKP(h, bp) == bp + GET_SIZE(h, HDRP(bp))

PREV_BLKP(h, bp) == bp - GET_SIZE(h, HDRP(bp) - WSIZE)

NEXT_FREEP(h, bp) == GET(h, bp + DSIZE)

PREV_FREEP(h, bp) == GET(h, bp)

\* The allocator's state: the heap image, the provider's break, the two
\* statics, the addresses the allocator has stored a tag or a link to
\* (written), whether the provider refused a request in the current call
\* (refused) and whether coalesce, in the current call, took for the
\* footer of the block before bp a word the allocator never stored (stray),
\* and the lengths of the memcpy calls of the current call (copied).
\* Every routine below maps such a record to the next one.
SetHeap(s, h) == [s EXCEPT !.heap = h]

Store(s, p, value) ==
    [s EXCEPT !.heap = PUT(s.heap, p, value), !.written = @ \cup {p}]

\* --------------------------------------------------------- heap provider
\* mem_sbrk(incr): grows the heap by incr bytes and returns the old break,
\* or refuses (no room left, or the provider declines) with (void *)-1.
mem_sbrk(s, incr, grant) ==
    IF ~grant \/ incr < 0 \/ s.brk + incr > LO + MaxHeap
    THEN [st |-> [s EXCEPT !.refused = TRUE], ret |-> SBRK_FAIL]
    ELSE [st |-> [s EXCEPT !.brk = s.brk + incr], ret |-> s.brk]

mem_heap_lo(s) == LO

mem_heap_hi(s) == s.brk - 1

\* ------------------------------------------------------- store patterns
\* Each routine below is the sequence of the C statements, innermost call
\* first; a state that a statement reads more than once is passed as the
\* parameter of one of these helpers.

\* PUT(HDRP(bp), word); PUT(FTRP(bp), word): the footer is located through
\* the header just written.
StoreHdr(s, bp, word) == Store(s, HDRP(bp), word)

StoreFtr(s, bp, word) == Store(s, FTRP(s.heap, bp), word)

\* Mutant: only the header is stored, the footer keeps what it held.
SetTags_hdronly(s, bp, word) == StoreHdr(s, bp, word)

SetTags(s, bp, word) == StoreFtr(StoreHdr(s, bp, word), bp, word)

\* PUT(HDRP(NEXT_BLKP(bp)), word)
StoreNextHdr(s, bp, word) == Store(s, HDRP(NEXT_BLKP(s.heap, bp)), word)

\* -------------------------------------------------------------- free list
\* PREV_FREEP(free_listp) = bp
StoreAtHead(s, bp) == Store(s, s.free_listp, bp)

\* Mutant: the old head's previous link is not set to the new block.
insert_at_front_nolink(s, bp) ==
    [Store(Store(s, bp + DSIZE, s.free_listp), bp, NULL) EXCEPT !.free_listp = bp]

insert_at_front(s, bp) ==
    [Store(StoreAtHead(Store(s, bp + DSIZE, s.free_listp), bp), bp, NULL)
        EXCEPT !.free_listp = bp]

\* if (PREV_FREEP(bp)) NEXT_FREEP(PREV_FREEP(bp)) = NEXT_FREEP(bp);
\* else free_listp = NEXT_FREEP(bp);
UnlinkFromPrev(s, bp) ==
    IF PREV_FREEP(s.heap, bp) # NULL
    THEN Store(s, PREV_FREEP(s.heap, bp) + DSIZE, NEXT_FREEP(s.heap, bp))
    ELSE [s EXCEPT !.free_listp = NEXT_FREEP(s.heap, bp)]

\* PREV_FREEP(NEXT_FREEP(bp)) = PREV_FREEP(bp)
UnlinkFromNext(s, bp) == Store(s, NEXT_FREEP(s.heap, bp), PREV_FREEP(s.heap, bp))

remove_block(s, bp) == UnlinkFromNext(UnlinkFromPrev(s, bp), bp)

\* --------------------------------------------------------------- coalesce
\* remove_block(NEXT_BLKP(bp)) and remove_block(PREV_BLKP(bp))
\* Mutant: the following block is absorbed without being unlinked.
RemoveNext_keep(s, bp) == s

RemoveNext(s, bp) == remove_block(s, NEXT_BLKP(s.heap, bp))

RemovePrev(s, bp) == remove_block(s, PREV_BLKP(s.heap, bp))

\* Mutant: the merged block gets its tags but is not put on the list.
Merged_nolist(s, bp, size) == [st |-> SetTags(s, bp, PACK(size, 0)), ret |-> bp]

\* PUT(HDRP(bp), PACK(size, 0)); PUT(FTRP(bp), PACK(size, 0));
\* insert_at_front(bp); return bp
Merged(s, bp, size) ==
    [st |-> insert_at_front(SetTags(s, bp, PACK(size, 0)), bp), ret |-> bp]

\* Case 3, after the two remove_block calls: bp = PREV_BLKP(bp); ...
MergedWithPrev(s, bp, size) == Merged(s, PREV_BLKP(s.heap, bp), size)

\* coalesce from the two tag reads on.
Coalesced(s, bp) ==
    LET h == s.heap
        previous_alloc == GET_ALLOC(h, FTRP(h, PREV_BLKP(h, bp))) # 0
                          \/ PREV_BLKP(h, bp) = bp
        next__alloc == GET_ALLOC(h, HDRP(NEXT_BLKP(h, bp))) # 0
        size == GET_SIZE(h, HDRP(bp))
    IN  IF previous_alloc /\ ~next__alloc THEN
            Merged(RemoveNext(s, bp), bp,
                   size + GET_SIZE(h, HDRP(NEXT_BLKP(h, bp))))
        ELSE IF ~previous_alloc /\ next__alloc THEN
            Merged(RemovePrev(s, bp), PREV_BLKP(h, bp),
                   size + GET_SIZE(h, HDRP(PREV_BLKP(h, bp))))
        ELSE IF ~previous_alloc /\ ~next__alloc THEN
            MergedWithPrev(RemoveNext(RemovePrev(s, bp), bp), bp,
                           size + GET_SIZE(h, HDRP(PREV_BLKP(h, bp)))
                                + GET_SIZE(h, HDRP(NEXT_BLKP(h, bp))))
        ELSE [st |-> insert_at_front(s, bp), ret |-> bp]

\* GET_SIZE(HDRP(bp) - WSIZE), the read PREV_BLKP(bp) starts from: the word
\* taken for the footer of the block before bp.
ReadPrevFooter(s, bp) ==
    [s EXCEPT !.stray = @ \/ (HDRP(bp) - WSIZE) \notin s.written]

coalesce(s, bp) == Coalesced(ReadPrevFooter(s, bp), bp)

\* ------------------------------------------------------------ extend_heap
\* Mutant: the parity test inverted, so an even word count gets one more.
ExtendSize_odd(words) ==
    LET size == IF words % 2 = 1 THEN BytesOf(words) ELSE BytesOf(words + 1)
    IN  IF ULT(size, OVERHEAD) THEN OVERHEAD ELSE size

\* The size extend_heap asks the provider for.
ExtendSize(words) ==
    LET size == IF words % 2 = 1 THEN BytesOf(words + 1) ELSE BytesOf(words)
    IN  IF ULT(size, OVERHEAD) THEN OVERHEAD ELSE size

\* Mutant: the refusal is tested against NULL, as mm_init tests its own
\* request, so the (void *)-1 of a refusal is taken for a block.
Extended_nullcheck(r, size) ==
    IF r.ret = NULL THEN [st |-> r.st, ret |-> NULL]
    ELSE coalesce(StoreNextHdr(SetTags(r.st, r.ret, PACK(size, 0)), r.ret, PACK(0, 1)),
                  r.ret)

\* extend_heap from the result r of mem_sbrk(size) on.
Extended(r, size) ==
    IF r.ret = SBRK_FAIL THEN [st |-> r.st, ret |-> NULL]
    ELSE coalesce(StoreNextHdr(SetTags(r.st, r.ret, PACK(size, 0)), r.ret, PACK(0, 1)),
                  r.ret)

extend_heap(s, words, grant) ==
    Extended(mem_sbrk(s, ExtendSize(words), grant), ExtendSize(words))

\* --------------------------------------------------------------- find_fit
\* Mutant: a block of exactly the wanted size is passed over.
RECURSIVE find_fit_loop_strict(_, _, _, _)
find_fit_loop_strict(s, bp, size, fuel) ==
    IF fuel = 0 \/ GET_ALLOC(s.heap, HDRP(bp)) # 0 THEN NULL
    ELSE IF ULT(size, GET_SIZE(s.heap, HDRP(bp))) THEN bp
    ELSE find_fit_loop_strict(s, NEXT_FREEP(s.heap, bp), size, fuel - 1)

\* The for loop of find_fit from block bp on.  The list cannot hold more
\* blocks than the heap has minimum-size slots, which bounds the walk.
RECURSIVE find_fit_loop(_, _, _, _)
find_fit_loop(s, bp, size, fuel) ==
    IF fuel = 0 \/ GET_ALLOC(s.heap, HDRP(bp)) # 0 THEN NULL
    ELSE IF ULE(size, GET_SIZE(s.heap, HDRP(bp))) THEN bp
    ELSE find_fit_loop(s, NEXT_FREEP(s.heap, bp), size, fuel - 1)

\* Mutant: searches for the payload size, forgetting the two tags.
find_fit_payload(s, size) == find_fit_loop(s, s.free_listp, size - DSIZE, MaxHeapDW)

find_fit(s, size) == find_fit_loop(s, s.free_listp, size, MaxHeapDW)

\* ------------------------------------------------------------------ place
\* The split, after remove_block(bp): bp = NEXT_BLKP(bp); the rest gets
\* free tags and is coalesced.
PlaceRest(s, bp, rest) ==
    coalesce(SetTags(s, NEXT_BLKP(s.heap, bp), PACK(rest, 0)),
             NEXT_BLKP(s.heap, bp)).st

\* Mutant: the block is never split.
place_nosplit(s, bp, size) ==
    remove_block(SetTags(s, bp, PACK(GET_SIZE(s.heap, HDRP(bp)), 1)), bp)

\* Mutant: splits as soon as the rest can hold the two tags.
place_small(s, bp, size) ==
    LET totalsize == GET_SIZE(s.heap, HDRP(bp))
        diff == totalsize - size
    IN  IF ULE(DSIZE, diff)
        THEN PlaceRest(remove_block(SetTags(s, bp, PACK(size, 1)), bp), bp, diff)
        ELSE remove_block(SetTags(s, bp, PACK(totalsize, 1)), bp)

place(s, bp, size) ==
    LET totalsize == GET_SIZE(s.heap, HDRP(bp))
        diff == totalsize - size
    IN  IF ULE(OVERHEAD, diff)
        THEN PlaceRest(remove_block(SetTags(s, bp, PACK(size, 1)), bp), bp, diff)
        ELSE remove_block(SetTags(s, bp, PACK(totalsize, 1)), bp)

\* -------------------------------------------------------------- mm_malloc
\* mm_malloc from the result e of extend_heap on.
PlaceExtended(e, adjustedsize) ==
    IF e.ret = NULL THEN [st |-> e.st, ret |-> NULL]
    ELSE [st |-> place(e.st, e.ret, adjustedsize), ret |-> e.ret]

\* mm_malloc from the result bp of find_fit on.
PlaceOrExtend(s, bp, adjustedsize, grant) ==
    IF bp # NULL THEN [st |-> place(s, bp, adjustedsize), ret |-> bp]
    ELSE PlaceExtended(extend_heap(s, WordsOf(MAX(adjustedsize, CHUNKSIZE)), grant),
                       adjustedsize)

\* Mutant: the zero-size test is missing (size < 0 is never true of a size_t).
mm_malloc_nozero(s, size, grant) ==
    IF ULT(size, 0) THEN [st |-> s, ret |-> NULL]
    ELSE PlaceOrExtend(s, find_fit(s, MAX(ALIGN(size) + DSIZE, OVERHEAD)),
                       MAX(ALIGN(size) + DSIZE, OVERHEAD), grant)

mm_malloc(s, size, grant) ==
    IF ULE(size, 0) THEN [st |-> s, ret |-> NULL]
    ELSE PlaceOrExtend(s, find_fit(s, MAX(ALIGN(size) + DSIZE, OVERHEAD)),
                       MAX(ALIGN(size) + DSIZE, OVERHEAD), grant)

\* ---------------------------------------------------------------- mm_free
\* Mutant: the freed block goes on the list without being coalesced.
mm_free_nocoalesce(s, bp) ==
    IF bp = NULL THEN s
    ELSE insert_at_front(SetTags(s, bp, PACK(GET_SIZE(s.heap, HDRP(bp)), 0)), bp)

mm_free(s, bp) ==
    IF bp = NULL THEN s
    ELSE coalesce(SetTags(s, bp, PACK(GET_SIZE(s.heap, HDRP(bp)), 0)), bp).st

\* ----------------------------------------------------------------- memcpy
\* Byte k (0 = lowest address, little endian) of a word, and a word with
\* its n lowest-addressed bytes taken from src and the rest from dst.
Pow256(k) == IF k = 0 THEN 1 ELSE IF k = 1 THEN 256 ELSE IF k = 2 THEN 65536
             ELSE 16777216

ByteOf(w, k) == (w \div Pow256(k)) % 256

MergeLow(dst, src, n) == (src % Pow256(n)) + (dst - (dst % Pow256(n)))

memcpy(h, dest, src, n) ==
    [a \in DOMAIN h |->
        IF a < dest \/ a >= dest + n THEN h[a]
        ELSE IF a + WSIZE <= dest + n THEN GET(h, src + (a - dest))
        ELSE MergeLow(h[a], GET(h, src + (a - dest)), dest + n - a)]

\* ------------------------------------------------------------- mm_realloc
\* mm_free(NEXT_BLKP(bp))
FreeNext(s, bp) == mm_free(s, NEXT_BLKP(s.heap, bp))

\* The shrink: the block gets tags of the adjusted size, the rest an
\* allocated header, and the rest is freed.
Shrink(s, bp, adjustedsize, oldsize) ==
    FreeNext(StoreNextHdr(SetTags(s, bp, PACK(adjustedsize, 1)), bp,
                          PACK(oldsize - adjustedsize, 1)), bp)

\* memcpy(newbp, bp, n) on the state's heap
Copy(s, newbp, bp, n) ==
    [s EXCEPT !.heap = memcpy(s.heap, newbp, bp, n), !.copied = @ \cup {n}]

\* Mutant: the old block is freed before its bytes are copied.
Moved_freefirst(m, bp, n) ==
    IF m.ret = NULL THEN [st |-> m.st, ret |-> NULL]
    ELSE [st |-> Copy(mm_free(m.st, bp), m.ret, bp, n), ret |-> m.ret]

\* mm_realloc from the result m of mm_malloc(size) on; n is the copy length.
Moved(m, bp, n) ==
    IF m.ret = NULL THEN [st |-> m.st, ret |-> NULL]
    ELSE [st |-> mm_free(Copy(m.st, m.ret, bp, n), bp), ret |-> m.ret]

\* Mutant: a zero size returns null without freeing the block.
mm_realloc_keep(s, bp, size, grant) ==
    LET adjustedsize == MAX(ALIGN(size) + DSIZE, OVERHEAD)
        oldsize == GET_SIZE(s.heap, HDRP(bp))
    IN  IF ULE(size, 0) THEN [st |-> s, ret |-> NULL]
        ELSE IF bp = NULL THEN mm_malloc(s, size, grant)
        ELSE IF oldsize = adjustedsize THEN [st |-> s, ret |-> bp]
        ELSE IF ULE(adjustedsize, oldsize) THEN
            IF ULE(oldsize - adjustedsize, OVERHEAD) THEN [st |-> s, ret |-> bp]
            ELSE [st |-> Shrink(s, bp, adjustedsize, oldsize), ret |-> bp]
        ELSE Moved(mm_malloc(s, size, grant), bp,
                   IF ULT(size, oldsize) THEN size ELSE oldsize)

mm_realloc(s, bp, size, grant) ==
    LET adjustedsize == MAX(ALIGN(size) + DSIZE, OVERHEAD)
        oldsize == GET_SIZE(s.heap, HDRP(bp))
    IN  IF ULE(size, 0) THEN [st |-> mm_free(s, bp), ret |-> NULL]
        ELSE IF bp = NULL THEN mm_malloc(s, size, grant)
        ELSE IF oldsize = adjustedsize THEN [st |-> s, ret |-> bp]
        ELSE IF ULE(adjustedsize, oldsize) THEN
            IF ULE(oldsize - adjustedsize, OVERHEAD) THEN [st |-> s, ret |-> bp]
            ELSE [st |-> Shrink(s, bp, adjustedsize, oldsize), ret |-> bp]
        ELSE Moved(mm_malloc(s, size, grant), bp,
                   IF ULT(size, oldsize) THEN size ELSE oldsize)

\* ---------------------------------------------------------------- mm_init
NoReturn == -2                  \* stands for "the call did not return"

\* The six PUTs of mm_init and the assignment of free_listp.
InitTags(s, hl) ==
    [Store(Store(Store(Store(Store(Store(s,
        hl, 0),
        hl + WSIZE, PACK(OVERHEAD, 1)),
        hl + DSIZE, 0),
        hl + DSIZE + WSIZE, 0),
        hl + OVERHEAD, PACK(OVERHEAD, 1)),
        hl + WSIZE + OVERHEAD, PACK(0, 1))
        EXCEPT !.free_listp = hl + DSIZE]

\* mm_init from the result e of extend_heap on.
InitExtended(e) ==
    [st |-> e.st, ret |-> IF e.ret = NULL THEN -1 ELSE 0, trap |-> FALSE]

\* mm_init from the result r of mem_sbrk(2 * OVERHEAD) on.
\* trap: the store through heap_listp = (char *)-1 faults; init never returns.
InitAt(r, grant2) ==
    IF r.ret = NULL
    THEN [st |-> [r.st EXCEPT !.heap_listp = r.ret], ret |-> -1, trap |-> FALSE]
    ELSE IF r.ret \notin Addrs
    THEN [st |-> [r.st EXCEPT !.heap_listp = r.ret], ret |-> NoReturn, trap |-> TRUE]
    ELSE InitExtended(extend_heap(InitTags([r.st EXCEPT !.heap_listp = r.ret], r.ret),
                                  CHUNKSIZE \div WSIZE, grant2))

mm_init(s, grant1, grant2) == InitAt(mem_sbrk(s, 2 * OVERHEAD, grant1), grant2)

\* --------------------------------------------------------------- mm_check
\* The checker reads words; one outside [lo, brk) belongs to whoever owns
\* the memory around the heap and holds a value the allocator never set.
Peek(s, p, outside) == IF p >= LO /\ p < s.brk THEN GET(s.heap, p) ELSE outside

check_block(s, bp, outside) ==
    LET next == Peek(s, bp + DSIZE, outside)
        prev == Peek(s, bp, outside)
        hdr == Peek(s, HDRP(bp), outside)
        ftr == Peek(s, bp + (hdr \div 8) * 8 - DSIZE, outside)
    IN  IF next < mem_heap_lo(s) \/ next > mem_heap_hi(s) THEN -1
        ELSE IF prev < mem_heap_lo(s) \/ prev > mem_heap_hi(s) THEN -1
        ELSE IF bp % 8 # 0 THEN -1
        ELSE IF hdr # ftr THEN -1
        ELSE 0

RECURSIVE check_loop(_, _, _, _)
check_loop(s, bp, outside, fuel) ==
    IF fuel = 0 \/ Peek(s, HDRP(bp), outside) % 2 # 0 THEN 0
    ELSE IF check_block(s, bp, outside) = -1 THEN -1
    ELSE check_loop(s, Peek(s, bp + DSIZE, outside), outside, fuel - 1)

mm_check(s, outside) ==
    LET hdr == Peek(s, HDRP(s.heap_listp), outside)
    IN  IF (hdr \div 8) * 8 # OVERHEAD \/ hdr % 2 = 0 THEN -1
        ELSE IF check_block(s, s.heap_listp, outside) = -1 THEN -1
        ELSE check_loop(s, s.free_listp, outside, MaxHeapDW)

\* ----------------------------------------------------------------- client
\* What the client stores in its memory: byte i of an allocation gets
\* Pattern(i), so a byte that moves or is overwritten shows.
Pattern(i) == i + 1

PatternWord(off, n) ==
    LET b(k) == IF off + k < n THEN Pattern(off + k) ELSE 0
    IN  b(0) + b(1) * 256 + b(2) * 65536 + b(3) * 16777216

Fill(h, p, n) ==
    [a \in DOMAIN h |->
        IF a < p \/ a >= p + n THEN h[a]
        ELSE IF a + WSIZE <= p + n THEN PatternWord(a - p, n)
        ELSE MergeLow(h[a], PatternWord(a - p, n), p + n - a)]

\* ========================================================= state machine
VARIABLES
    heap,          \* the heap image, word address -> word
    brk,           \* the provider's break: the heap is [LO, brk)
    heap_listp,    \* static char *heap_listp
    free_listp,    \* static char *free_listp
    phase,         \* "uninit", "ready", "failed" (init returned -1), "crashed"
    live,          \* the client's allocations: pointer -> requested size
    nops,          \* calls made after init (bounds the run)
    written,       \* the addresses the allocator has stored a tag or a link to
    last           \* the last public call: operation, arguments, result

vars == <<heap, brk, heap_listp, free_listp, phase, live, nops, written, last>>

St == [heap |-> heap, brk |-> brk, heap_listp |-> heap_listp,
       free_listp |-> free_listp, written |-> written, refused |-> FALSE,
       stray |-> FALSE, copied |-> {}]

Adopt(s) ==
    /\ heap' = s.heap
    /\ brk' = s.brk
    /\ heap_listp' = s.heap_listp
    /\ free_listp' = s.free_listp
    /\ written' = s.written

Call(op, p, size, ret, s) ==
    [op |-> op, p |-> p, size |-> size, ret |-> ret, refused |-> s.refused,
     stray |-> s.stray, copied |-> s.copied]

Drop(f, p) == [x \in DOMAIN f \ {p} |-> f[x]]

Bind(f, p, v) == [x \in DOMAIN f \cup {p} |-> IF x = p THEN v ELSE f[x]]

Init ==
    /\ heap = [a \in Addrs |-> 0]
    /\ brk = LO
    /\ heap_listp = NULL
    /\ free_listp = NULL
    /\ phase = "uninit"
    /\ live = [x \in {} |-> 0]
    /\ nops = 0
    /\ written = {}
    /\ last = [op |-> "none", p |-> NULL, size |-> 0, ret |-> 0, refused |-> FALSE,
               stray |-> FALSE, copied |-> {}]

DoInit(grant1, grant2) ==
    /\ phase = "uninit"
    /\ LET r == mm_init(St, grant1, grant2)
       IN  /\ Adopt(r.st)
           /\ phase' = IF r.trap THEN "crashed"
                       ELSE IF r.ret = 0 THEN "ready" ELSE "failed"
           /\ last' = Call("init", NULL, 0, r.ret, r.st)
    /\ UNCHANGED <<live, nops>>

DoMalloc(size, grant) ==
    /\ phase = "ready"
    /\ nops < MaxOps
    /\ LET r == mm_malloc(St, size, grant)
       IN  /\ Adopt(r.st)
           /\ live' = IF r.ret = NULL THEN live ELSE Bind(live, r.ret, size)
           /\ last' = Call("malloc", NULL, size, r.ret, r.st)
    /\ nops' = nops + 1
    /\ UNCHANGED phase

DoFree(p) ==
    /\ phase = "ready"
    /\ nops < MaxOps
    /\ LET s == mm_free(St, p)
       IN  /\ Adopt(s)
           /\ live' = Drop(live, p)
           /\ last' = Call("free", p, 0, NULL, s)
    /\ nops' = nops + 1
    /\ UNCHANGED phase

DoRealloc(p, size, grant) ==
    /\ phase = "ready"
    /\ nops < MaxOps
    /\ LET r == mm_realloc(St, p, size, grant)
       IN  /\ Adopt(r.st)
           /\ live' = IF size = 0 THEN Drop(live, p)
                      ELSE IF r.ret = NULL THEN live
                      ELSE Bind(Drop(live, p), r.ret, size)
           /\ last' = Call("realloc", p, size, r.ret, r.st)
    /\ nops' = nops + 1
    /\ UNCHANGED phase

\* The client fills its allocation p with a pattern: byte i of the
\* allocation becomes Pattern(i).
DoWrite(p) ==
    /\ phase = "ready"
    /\ nops < MaxOps
    /\ heap' = Fill(heap, p, live[p])
    /\ heap' # heap
    /\ last' = Call("write", p, live[p], NULL, St)
    /\ nops' = nops + 1
    /\ UNCHANGED <<brk, heap_listp, free_listp, phase, live, written>>

DoCheck(outside) ==
    /\ phase = "ready"
    /\ last' = Call("check", NULL, 0, mm_check(St, outside), St)
    /\ UNCHANGED <<heap, brk, heap_listp, free_listp, phase, live, nops, written>>

Next ==
    \/ \E g1 \in BOOLEAN, g2 \in BOOLEAN : DoInit(g1, g2)
    \/ \E size \in Sizes, grant \in BOOLEAN : DoMalloc(size, grant)
    \/ \E p \in DOMAIN live \cup {NULL} : DoFree(p)
    \/ \E p \in DOMAIN live \cup {NULL}, size \in Sizes, grant \in BOOLEAN :
          DoRealloc(p, size, grant)
    \/ \E p \in DOMAIN live : DoWrite(p)
    \/ \E outside \in OutsideWords : DoCheck(outside)

Spec == Init /\ [][Next]_vars

\* ================================================================ claims
Ready == phase = "ready"

Byte(h, a) == ByteOf(GET(h, a - (a % WSIZE)), a % WSIZE)

Adjusted(size) == MAX(ALIGN(size) + DSIZE, OVERHEAD)

Min(x, y) == IF x < y THEN x ELSE y

\* The block pointers on the free list of (h, head), head to sentinel.
RECURSIVE FreeListFrom(_, _, _)
FreeListFrom(h, bp, fuel) ==
    IF fuel = 0 \/ GET_ALLOC(h, HDRP(bp)) # 0 THEN {}
    ELSE {bp} \cup FreeListFrom(h, NEXT_FREEP(h, bp), fuel - 1)

FreeBlocks == FreeListFrom(heap, free_listp, MaxHeapDW)

AllocatorUnchanged ==
    /\ heap' = heap
    /\ brk' = brk
    /\ heap_listp' = heap_listp
    /\ free_listp' = free_listp
    /\ written' = written

Returned(call) == call.op \in {"malloc", "realloc"} /\ call.ret # NULL

\* C1: after a successful init and any calls with valid arguments, two live
\* allocations never overlap, a live allocation lies between the header
\* and the footer of its own allocated block, the blocks of live
\* allocations and the free-list blocks are pairwise disjoint and lie
\* between the prologue and the epilogue; and a pointer handed out by
\* alloc or by a moving realloc is not the pointer of a live allocation.
C1_Disjoint ==
    Ready =>
        \A p \in DOMAIN live :
            /\ GET_ALLOC(heap, HDRP(p)) = 1
            /\ HDRP(p) >= LO + 2 * OVERHEAD - WSIZE
            /\ p + live[p] <= FTRP(heap, p)
            /\ HDRP(NEXT_BLKP(heap, p)) <= brk - WSIZE
            /\ \A q \in DOMAIN live \ {p} :
                  /\ p + live[p] <= q \/ q + live[q] <= p
                  /\ NEXT_BLKP(heap, p) <= q \/ NEXT_BLKP(heap, q) <= p
            /\ \A f \in FreeBlocks :
                  NEXT_BLKP(heap, p) <= f \/ NEXT_BLKP(heap, f) <= p

C1_Fresh ==
    (Returned(last') /\ last'.ret # last'.p) => last'.ret \notin DOMAIN live

C1_NoOverlap == []C1_Disjoint /\ [][C1_Fresh]_vars

C1_Witness ==
    /\ Ready
    /\ Cardinality(DOMAIN live) >= 2
    /\ FreeBlocks # {}
    /\ last.op = "realloc" /\ last.ret # NULL /\ last.p # NULL /\ last.ret # last.p

\* C2: an alloc, free, realloc or client store that is about another
\* pointer leaves every byte of every live allocation as it was, and a
\* realloc(p, size) that returns a block returns one whose first
\* min(old size, size) bytes are those p held before the call.
C2_Frame ==
    \A p \in DOMAIN live :
        (last' # last /\ ~(last'.op \in {"free", "realloc", "write"} /\ last'.p = p))
        => \A i \in 0 .. live[p] - 1 : Byte(heap', p + i) = Byte(heap, p + i)

C2_Realloc ==
    (last' # last /\ last'.op = "realloc" /\ last'.p # NULL /\ last'.ret # NULL)
    => \A i \in 0 .. Min(live[last'.p], last'.size) - 1 :
          Byte(heap', last'.ret + i) = Byte(heap, last'.p + i)

C2_ContentIntegrity == [][C2_Frame /\ C2_Realloc]_vars

C2_Witness ==
    /\ Ready
    /\ last.op = "realloc" /\ last.p # NULL /\ last.ret # NULL /\ last.ret # last.p
    /\ \A i \in 0 .. 15 : Byte(heap, last.ret + i) = Pattern(i)
    /\ \E q \in DOMAIN live \ {last.ret} : Byte(heap, q) = Pattern(0)

\* C3: a non-null pointer returned by alloc(size) or realloc(p, size)
\* names a block whose header size minus the 8 bytes of header and footer
\* is at least size; so does every live allocation.
C3_Capacity ==
    /\ Returned(last) => GET_SIZE(heap, HDRP(last.ret)) - DSIZE >= last.size
    /\ \A p \in DOMAIN live : GET_SIZE(heap, HDRP(p)) - DSIZE >= live[p]

C3_Witness ==
    /\ last.op = "realloc" /\ last.ret # NULL /\ last.p # NULL
    /\ last.size = 17
    /\ GET_SIZE(heap, HDRP(last.ret)) = 32

\* C4: with the heap's low bound 8-byte aligned, every non-null pointer
\* returned by alloc or realloc, and so every live pointer, is a multiple
\* of 8.
C4_Alignment ==
    /\ LO % ALIGNMENT = 0
    /\ Returned(last) => last.ret % ALIGNMENT = 0
    /\ \A p \in DOMAIN live : p % ALIGNMENT = 0

C4_Witness ==
    /\ last.op = "malloc" /\ last.ret # NULL
    /\ last.ret + GET_SIZE(heap, HDRP(last.ret)) = brk
    /\ brk > LO + 2 * OVERHEAD + OVERHEAD + OVERHEAD

\* C5: when the provider refuses to grow during alloc(size) or during a
\* realloc(p, size), the call returns null and the heap image, the heap
\* bounds, the free-list head and the client's allocations are what they
\* were before the call.
C5_Step ==
    (last'.op \in {"malloc", "realloc"} /\ last'.refused)
    => /\ last'.ret = NULL
       /\ AllocatorUnchanged
       /\ live' = live

C5_OomNoPartialState == [][C5_Step]_vars

C5_Witness ==
    /\ last.op = "realloc" /\ last.refused /\ last.p # NULL
    /\ last.p \in DOMAIN live
    /\ FreeBlocks # {}

\* C6: init returns -1 whenever the provider refuses one of init's two
\* growth requests, and returns 0 only when both were granted.
C6_InitReportsRefusal ==
    last.op = "init" =>
        /\ last.refused => (phase = "failed" /\ last.ret = -1)
        /\ last.ret = 0 => (phase = "ready" /\ ~last.refused)

\* C7: realloc(p, size) of a live p whose adjusted size a is at most the
\* block size o returns p; with o - a < 24 the heap is unchanged, and
\* with o - a >= 24 the block at p has size a and the o - a bytes after it
\* are a free-list block (grown by the following block if that was free).
C7_Step ==
    LET p == last'.p
        a == Adjusted(last'.size)
        o == GET_SIZE(heap, HDRP(p))
        nxt == p + o
        tail == (o - a) + IF GET_ALLOC(heap, HDRP(nxt)) = 0
                          THEN GET_SIZE(heap, HDRP(nxt)) ELSE 0
    IN  (last' # last /\ last'.op = "realloc" /\ p # NULL /\ last'.size > 0 /\ a <= o)
        => /\ last'.ret = p
           /\ IF o - a < OVERHEAD THEN AllocatorUnchanged
              ELSE /\ GET(heap', HDRP(p)) = PACK(a, 1)
                   /\ p + a \in FreeListFrom(heap', free_listp', MaxHeapDW)
                   /\ GET(heap', HDRP(p + a)) = PACK(tail, 0)

C7_ShrinkRule == [][C7_Step]_vars

\* C8: realloc(null, n) returns what alloc(n) returns and leaves the state
\* alloc(n) leaves; realloc(p, 0) returns null and leaves the state free(p)
\* leaves.
C8_ReallocNullEquivalence ==
    Ready =>
        \A grant \in BOOLEAN :
            /\ \A n \in Sizes :
                  mm_realloc(St, NULL, n, grant) = mm_malloc(St, n, grant)
            /\ \A p \in DOMAIN live \cup {NULL} :
                  mm_realloc(St, p, 0, grant) = [st |-> mm_free(St, p), ret |-> NULL]

C8_Witness ==
    /\ last.op = "realloc" /\ last.p # NULL /\ last.size = 0
    /\ Cardinality(FreeBlocks) >= 2
    /\ DOMAIN live # {}

\* C9: alloc(0) returns null, free(null) returns, and each leaves the heap
\* image, the heap bounds, the free list and the client's allocations
\* unchanged.
C9_Step ==
    (\/ last'.op = "malloc" /\ last'.size = 0
     \/ last'.op = "free" /\ last'.p = NULL)
    => /\ last'.ret = NULL
       /\ AllocatorUnchanged
       /\ live' = live

C9_ZeroAndNull == [][C9_Step]_vars

C9_Witness ==
    /\ last.op = "malloc" /\ last.size = 0
    /\ FreeBlocks # {}
    /\ DOMAIN live # {}

\* C10: on every state reached by a successful init and calls with valid
\* arguments, check() returns 0.
C10_CheckPasses == (Ready /\ last.op = "check") => last.ret = 0

\* ------------------------------------------------- the blocks of the heap
\* The prologue's block pointer, and the block pointer of the first block
\* after it: the break init's mem_sbrk(2 * OVERHEAD) leaves, which is what
\* the mem_sbrk of init's extend_heap returns.
Prologue == heap_listp + DSIZE

FirstBlock == heap_listp + 2 * OVERHEAD

\* The physical walk: from bp, adding each header's size, up to (not
\* including) the first header of size 0.
RECURSIVE Walk(_, _, _)
Walk(h, bp, fuel) ==
    IF fuel = 0 \/ GET_SIZE(h, HDRP(bp)) = 0 THEN <<>>
    ELSE <<bp>> \o Walk(h, NEXT_BLKP(h, bp), fuel - 1)

\* The address of the header of size 0 the walk stops at (-1: none found).
RECURSIVE WalkEnd(_, _, _)
WalkEnd(h, bp, fuel) ==
    IF fuel = 0 THEN -1
    ELSE IF GET_SIZE(h, HDRP(bp)) = 0 THEN HDRP(bp)
    ELSE WalkEnd(h, NEXT_BLKP(h, bp), fuel - 1)

RECURSIVE SumSizes(_, _)
SumSizes(h, w) ==
    IF w = <<>> THEN 0 ELSE GET_SIZE(h, HDRP(Head(w))) + SumSizes(h, Tail(w))

Range(w) == {w[i] : i \in 1 .. Len(w)}

\* The blocks extend_heap, place and realloc have made, in address order.
Blocks == Walk(heap, FirstBlock, MaxHeapDW)

IsFree(b) == GET_ALLOC(heap, HDRP(b)) = 0

\* Blocks leaves no block out: its walk stops at the epilogue header in the
\* last word of the heap.
BlocksComplete == WalkEnd(heap, FirstBlock, MaxHeapDW) = brk - WSIZE

\* The free list as a sequence, head first, and the pointer its traversal
\* stops at (-1: it did not stop).
RECURSIVE FreeSeqFrom(_, _, _)
FreeSeqFrom(h, bp, fuel) ==
    IF fuel = 0 \/ GET_ALLOC(h, HDRP(bp)) # 0 THEN <<>>
    ELSE <<bp>> \o FreeSeqFrom(h, NEXT_FREEP(h, bp), fuel - 1)

RECURSIVE FreeListEnd(_, _, _)
FreeListEnd(h, bp, fuel) ==
    IF fuel = 0 THEN -1
    ELSE IF GET_ALLOC(h, HDRP(bp)) # 0 THEN bp
    ELSE FreeListEnd(h, NEXT_FREEP(h, bp), fuel - 1)

FreeSeq == FreeSeqFrom(heap, free_listp, MaxHeapDW)

\* C11: after init and after every call, the walk over the physical blocks
\* from the prologue, adding each header's size, ends at the epilogue
\* header in the last word of the heap, and the sizes of the blocks walked
\* add up to the heap's extent less the pad word and the epilogue header.
C11_Tiling ==
    Ready =>
        /\ WalkEnd(heap, Prologue, MaxHeapDW) = brk - WSIZE
        /\ SumSizes(heap, Walk(heap, Prologue, MaxHeapDW)) = (brk - LO) - WSIZE - WSIZE

\* C12: between calls, no two blocks that follow each other in the heap
\* are both free.
C12_NoAdjacentFree ==
    Ready =>
        /\ BlocksComplete
        /\ \A i \in 1 .. Len(Blocks) - 1 : ~(IsFree(Blocks[i]) /\ IsFree(Blocks[i + 1]))

C12_Witness ==
    /\ Ready
    /\ last.op = "free" /\ last.p # NULL
    /\ free_listp < last.p /\ last.p < NEXT_BLKP(heap, free_listp)
    /\ DOMAIN live # {}

\* C13: between calls, the blocks the free list holds are the blocks of the
\* heap whose allocated bit is clear, each held once.
C13_ListIsFreeBlocks ==
    Ready =>
        /\ BlocksComplete
        /\ FreeBlocks = {b \in Range(Blocks) : IsFree(b)}
        /\ Len(FreeSeq) = Cardinality(FreeBlocks)

C13_Witness ==
    /\ Ready
    /\ Cardinality(FreeBlocks) = 2
    /\ Len(Blocks) = 3
    /\ DOMAIN live # {}
    /\ last.op = "realloc" /\ last.p # NULL /\ last.size = 0

\* C14: between calls, every block b on the free list is the previous
\* block of its next block and, unless b is the head, the next block of
\* its previous block; and the next links from the head lead to the
\* prologue, whose header is allocated, where every traversal stops.
C14_ListConsistent ==
    Ready =>
        /\ \A b \in FreeBlocks :
              /\ PREV_FREEP(heap, NEXT_FREEP(heap, b)) = b
              /\ PREV_FREEP(heap, b) # NULL => NEXT_FREEP(heap, PREV_FREEP(heap, b)) = b
        /\ FreeListEnd(heap, free_listp, MaxHeapDW) = Prologue
        /\ GET(heap, HDRP(Prologue)) = PACK(OVERHEAD, 1)

C14_Witness ==
    /\ Ready
    /\ Len(FreeSeq) = 2
    /\ last.op = "free" /\ last.p = free_listp
    /\ PREV_FREEP(heap, FreeSeq[2]) = last.p

\* C15: between calls, the previous link and the next link of every block
\* on the free list hold addresses of the heap, lo <= link < hi.
C15_LinksInHeap ==
    Ready =>
        \A b \in FreeBlocks :
            /\ LO <= PREV_FREEP(heap, b) /\ PREV_FREEP(heap, b) < brk
            /\ LO <= NEXT_FREEP(heap, b) /\ NEXT_FREEP(heap, b) < brk

\* C16: between calls, the header word of the prologue and of every
\* allocated or free block equals the word in the block's last four bytes.
C16_HeaderIsFooter ==
    Ready =>
        /\ BlocksComplete
        /\ \A b \in {Prologue} \cup Range(Blocks) :
              GET(heap, HDRP(b)) = GET(heap, b + GET_SIZE(heap, HDRP(b)) - DSIZE)

C16_Witness ==
    /\ Ready
    /\ last.op = "realloc" /\ last.p # NULL /\ last.ret = last.p
    /\ GET_SIZE(heap, HDRP(last.p)) = OVERHEAD
    /\ NEXT_BLKP(heap, last.p) \in FreeBlocks
    /\ Len(Blocks) >= 3

\* C17: between calls, the header of the prologue and of every allocated
\* or free block holds a size that is a multiple of 8 and at least 24.
C17_BlockSizes ==
    Ready =>
        /\ BlocksComplete
        /\ \A b \in {Prologue} \cup Range(Blocks) :
              /\ GET(heap, HDRP(b)) % 8 \in {0, 1}
              /\ GET_SIZE(heap, HDRP(b)) >= OVERHEAD

C17_Witness ==
    /\ Ready
    /\ last.op = "malloc" /\ last.ret # NULL
    /\ GET_SIZE(heap, HDRP(last.ret)) = OVERHEAD
    /\ NEXT_BLKP(heap, last.ret) \in FreeBlocks
    /\ GET_SIZE(heap, HDRP(NEXT_BLKP(heap, last.ret))) = OVERHEAD

\* C18: in no call does coalesce take for the footer of the block before
\* bp (the word at bp - 8) a word the allocator has not stored before; for
\* the first block after the prologue that word is the prologue's footer.
C18_PrevFooterWritten == ~last.stray

\* The first block of the free list, head first, that holds a bytes.
Fits(a) == {i \in 1 .. Len(FreeSeq) : GET_SIZE(heap, HDRP(FreeSeq[i])) >= a}

FirstFit(a) == FreeSeq[CHOOSE i \in Fits(a) : \A j \in Fits(a) : i <= j]

\* C19: an alloc(size) made while the free list holds a block of at least
\* the adjusted size a returns the first such block in head-to-tail order
\* and leaves the heap's bounds alone; and when the call before it was a
\* free(p) that left p at the head of the list in a block of at least a
\* bytes, it returns p.
C19_Step ==
    (nops' # nops /\ last'.op = "malloc" /\ last'.size > 0)
    => /\ Fits(Adjusted(last'.size)) # {}
            => (last'.ret = FirstFit(Adjusted(last'.size)) /\ brk' = brk)
       /\ (/\ last.op = "free" /\ last.p # NULL /\ free_listp = last.p
           /\ Adjusted(last'.size) <= GET_SIZE(heap, HDRP(last.p)))
            => last'.ret = last.p

C19_FirstFitLifo == [][C19_Step]_vars

C19_Witness ==
    /\ Ready
    /\ last.op = "malloc" /\ last.ret # NULL
    /\ \E f \in FreeBlocks :
          f < last.ret /\ GET_SIZE(heap, HDRP(f)) >= Adjusted(last.size)

\* The free blocks of the heap next to block p: the one before it and the
\* one after it, where there is one and it is free.
FreeBefore(p) ==
    {Blocks[i] : i \in {j \in 1 .. Len(Blocks) - 1 : Blocks[j + 1] = p /\ IsFree(Blocks[j])}}

FreeAfter(p) == {b \in Range(Blocks) : b = NEXT_BLKP(heap, p) /\ IsFree(b)}

\* Where the block made of p and its free neighbours starts and ends.
SpanStart(p) == IF FreeBefore(p) = {} THEN p ELSE CHOOSE b \in FreeBefore(p) : TRUE

SpanEnd(p) ==
    IF FreeAfter(p) = {} THEN NEXT_BLKP(heap, p)
    ELSE NEXT_BLKP(heap, NEXT_BLKP(heap, p))

\* C20: when free(p) returns, the head of the free list is one free block
\* that starts where p's block or, if the block before it was free, that
\* block started, and ends where p's block or, if the block after it was
\* free, that block ended; the list holds it once, does not hold the
\* absorbed blocks, and holds the other blocks it held.
C20_Step ==
    (nops' # nops /\ last'.op = "free" /\ last'.p # NULL)
    => /\ free_listp' = SpanStart(last'.p)
       /\ GET(heap', HDRP(free_listp')) = PACK(SpanEnd(last'.p) - SpanStart(last'.p), 0)
       /\ GET(heap', SpanEnd(last'.p) - DSIZE) = PACK(SpanEnd(last'.p) - SpanStart(last'.p), 0)
       /\ FreeListFrom(heap', free_listp', MaxHeapDW)
             = (FreeBlocks \ (FreeBefore(last'.p) \cup FreeAfter(last'.p)))
                  \cup {free_listp'}
       /\ Len(FreeSeqFrom(heap', free_listp', MaxHeapDW))
             = Cardinality(FreeListFrom(heap', free_listp', MaxHeapDW))

C20_FreeCoalesces == [][C20_Step]_vars

C20_Witness ==
    /\ Ready
    /\ last.op = "free" /\ last.p # NULL
    /\ free_listp < last.p
    /\ NEXT_BLKP(heap, free_listp) > last.p + GET_SIZE(heap, HDRP(last.p))
    /\ FreeBlocks = {free_listp}

\* C21: an alloc(size) that returns a block returns an allocated one whose
\* size s satisfies a <= s < a + 24, a being the adjusted size; when the
\* block comes from the free list, where it had size t, then either
\* t - a >= 24, s = a and the t - a bytes after it are a free block on the
\* list, or t - a < 24 and s = t.
C21_Step ==
    (nops' # nops /\ last'.op = "malloc" /\ last'.ret # NULL)
    => LET a == Adjusted(last'.size)
           s == GET_SIZE(heap', HDRP(last'.ret))
           t == GET_SIZE(heap, HDRP(last'.ret))
       IN  /\ GET_ALLOC(heap', HDRP(last'.ret)) = 1
           /\ a <= s /\ s < a + OVERHEAD
           /\ Fits(a) # {} =>
                 IF t - a >= OVERHEAD
                 THEN /\ s = a
                      /\ GET(heap', HDRP(last'.ret + a)) = PACK(t - a, 0)
                      /\ last'.ret + a \in FreeListFrom(heap', free_listp', MaxHeapDW)
                 ELSE s = t

C21_SplitThreshold == [][C21_Step]_vars

C21_Witness ==
    /\ Ready
    /\ last.op = "malloc" /\ last.ret # NULL
    /\ GET_SIZE(heap, HDRP(last.ret)) = Adjusted(last.size) + DSIZE
    /\ Cardinality(DOMAIN live) >= 2

\* C22: a realloc(p, size) that moves the block copies min(size, o - 8)
\* bytes, o being the size of p's block, and so reads no byte of the old
\* block's footer or of what follows it.
C22_Step ==
    (nops' # nops /\ last'.op = "realloc" /\ last'.copied # {})
    => last'.copied = {Min(last'.size, GET_SIZE(heap, HDRP(last'.p)) - DSIZE)}

C22_CopyLength == [][C22_Step]_vars

\* ------------------------------------------------------- huge requests
\* Request sizes at the top of size_t, 2^32 - 1, 2^32 - 8 and 2^32 - 16, and
\* one in its upper half, 3 * 2^30, as the model holds them.
HugeSizes == {-1, -DSIZE, -(2 * DSIZE), -TwoTo30}

\* The calls of a client that also asks for such sizes.
HugeRequests == {MaxReq} \cup HugeSizes

NextHuge ==
    \/ \E g1 \in BOOLEAN, g2 \in BOOLEAN : DoInit(g1, g2)
    \/ \E size \in HugeRequests, grant \in BOOLEAN : DoMalloc(size, grant)
    \/ \E p \in DOMAIN live \cup {NULL} : DoFree(p)
    \/ \E p \in DOMAIN live \cup {NULL}, size \in HugeRequests, grant \in BOOLEAN :
          DoRealloc(p, size, grant)

SpecHuge == Init /\ [][NextHuge]_vars

\* C23: for every request size from 1 to 2^32 - 1, the adjusted size
\* max(align8(size) + 8, 24), computed modulo 2^32 as alloc and realloc
\* compute it, is at least size + 8 (it is above size, by 8 or more); and a
\* block such a call returns holds size bytes.
C23_AdjustNeverWraps ==
    (Ready /\ last.op \in {"malloc", "realloc"} /\ last.size # 0)
    => /\ ULT(last.size, Adjusted(last.size))
       /\ ULE(DSIZE, Adjusted(last.size) - last.size)
       /\ last.ret # NULL => ULE(last.size, GET_SIZE(heap, HDRP(last.ret)) - DSIZE)

====
